---- MODULE Spec2Model ----
(***************************************************************************)
(* Novelgen-AI: the panel store of App, the Toolbox form and story-assist  *)
(* handlers, and the gateway wrappers of geminiService.                    *)
(*                                                                         *)
(* One action is one browser event (a click, a keystroke, the settling of  *)
(* a gateway promise) together with the render and the effects that follow *)
(* it.  An async handler is split at its await: the first half runs with   *)
(* the event, the second half runs when the gateway responds and sees the  *)
(* values its closure captured when the handler was called.                *)
(*                                                                         *)
(* Texts (prompts, captions, image references) are sequences of tokens;    *)
(* the empty sequence is the empty string.                                 *)
(***************************************************************************)
EXTENDS Integers, Sequences, FiniteSets, TLC

\* ------------------------------------------------------------------ bounds
MaxPanels == 2
MaxIds == 5
MaxInflight == 2
MaxSteps == 8
MaxCharacters == 2
MaxLiveSteps == 6
MaxDeepSteps == 9

\* ------------------------------------------------------- program constants
MaxSpanStandard == 3

Null == 0

EmptyText == << >>

GenerationMode == {"CREATE", "EDIT", "STORY"}

PanelSplitLayout ==
  {"SINGLE", "DOUBLE_V", "DOUBLE_H", "TRIPLE_V", "TRIPLE_H", "QUAD",
   "BIG_LEFT", "BIG_RIGHT", "BIG_TOP", "BIG_BOTTOM"}

NarrativeTypes == {"PLOT", "DIALOGUE", "NEXT_PANEL"}

\* ---------------------------------------------------------- input domains
PromptInputs == {EmptyText, <<" ">>, <<"a">>}
CaptionInputs == {<<"c">>}
ContextInputs == {<<"n">>}
OverlayInputs == {"NONE", "BUBBLE_LEFT"}
SpanInputs == {2}
SketchInputs == {<<"data:image/png;", "base64,", "S">>}
StyleInputs == {"MODERN", "NOIR"}
NameInputs == {<<"Raven">>, <<" ", "Ann", " ">>}
DescriptionInputs == {<<"black hair, trenchcoat">>}

\* What the provider may answer to an image request: the transport throws,
\* the payload is missing, the payload is empty, or there are image bytes.
ImageResponses ==
  {[kind |-> "throw"], [kind |-> "missing"],
   [kind |-> "bytes", bytes |-> ""], [kind |-> "bytes", bytes |-> "A"]}

\* What the provider may answer to a text request: the transport throws,
\* response.text is undefined, or response.text is a string.
TextResponses ==
  {[kind |-> "throw"], [kind |-> "undefined"],
   [kind |-> "text", text |-> EmptyText],
   [kind |-> "text", text |-> <<"\"", "t", "\"">>]}

\* ------------------------------------------------------------ text helpers
IsSpace(ch) == ch = " " \/ ch = "\n"

RECURSIVE TrimStart(_)
TrimStart(s) ==
  IF s = << >> THEN << >>
  ELSE IF IsSpace(Head(s)) THEN TrimStart(Tail(s)) ELSE s

RECURSIVE TrimEnd(_)
TrimEnd(s) ==
  IF s = << >> THEN << >>
  ELSE IF IsSpace(s[Len(s)]) THEN TrimEnd(SubSeq(s, 1, Len(s) - 1)) ELSE s

\* String.prototype.trim
Trim(s) == TrimEnd(TrimStart(s))

\* !prompt.trim()
PromptBlankWithoutTrim(p) == p = EmptyText
PromptBlank(p) == Trim(p) = EmptyText

IsQuote(ch) == ch = "\"" \/ ch = "'"

\* text.replace(/^["']|["']$/g, '')
StripQuotes(s) ==
  LET a == IF s # << >> /\ IsQuote(Head(s)) THEN Tail(s) ELSE s
  IN  IF a # << >> /\ IsQuote(a[Len(a)]) THEN SubSeq(a, 1, Len(a) - 1) ELSE a

\* ------------------------------------------------------------- the gateway
\* Each wrapper yields [ok |-> FALSE] when it throws and
\* [ok |-> TRUE, value |-> v] when it returns v.
Failure == [ok |-> FALSE, value |-> EmptyText]
Success(v) == [ok |-> TRUE, value |-> v]

\* const base64ImageBytes = response.generatedImages?.[0]?.image?.imageBytes
ImageBytes(resp) == IF resp.kind = "bytes" THEN resp.bytes ELSE ""

generateComicImage(resp) ==
  IF resp.kind = "throw" THEN Failure
  ELSE IF ImageBytes(resp) = "" THEN Failure
  ELSE Success(<<"data:image/jpeg;", "base64,", ImageBytes(resp)>>)

\* the first part with inlineData.data, as a data URL; '' when there is none
InlineImage(resp) ==
  IF ImageBytes(resp) = "" THEN EmptyText
  ELSE <<"data:image/png;", "base64,", ImageBytes(resp)>>

generateImageFromSketch(resp) ==
  IF resp.kind = "throw" THEN Failure
  ELSE IF resp.kind = "missing" THEN Failure
  ELSE IF InlineImage(resp) = EmptyText THEN Failure
  ELSE Success(InlineImage(resp))

editComicImage(resp) ==
  IF resp.kind = "throw" THEN Failure
  ELSE IF resp.kind = "missing" THEN Failure
  ELSE IF InlineImage(resp) = EmptyText THEN Failure
  ELSE Success(InlineImage(resp))

generateNarrativeElement(resp) ==
  IF resp.kind = "throw" THEN Failure
  ELSE LET text == IF resp.kind = "text" THEN Trim(resp.text) ELSE EmptyText
       IN  Success(StripQuotes(text))

\* ------------------------------------------------------------------- state
VARIABLES
  panels,           \* App: ComicPanel[]
  selectedPanelId,  \* App: string | null
  activeSlotId,     \* App: string | null
  mode,             \* App: GenerationMode
  loadingState,     \* App: loadingState.isLoading
  prompt,           \* Toolbox: prompt
  uploadedSketch,   \* Toolbox: uploadedSketch (EmptyText when null)
  narrativeContext, \* Toolbox: narrativeContext
  characters,       \* App: Character[]
  style,            \* Toolbox: style
  inflight,         \* gateway promises not yet settled, with their closures
  nextId,           \* the next value uuidv4() returns
  discarded,        \* history: ids of the slots a shrink has dropped
  steps,            \* history: the number of user events handled so far
  budget,           \* the number of user events the session may have
  lastOp            \* history: the event handled last

vars == <<panels, selectedPanelId, activeSlotId, mode, loadingState, prompt,
          uploadedSketch, narrativeContext, characters, style, inflight, nextId,
          discarded, steps, budget, lastOp>>

\* ----------------------------------------------------------------- helpers
PanelIds(ps) == {ps[i].id : i \in DOMAIN ps}

HasPanel(ps, id) == \E i \in DOMAIN ps : ps[i].id = id

\* panels.find(p => p.id === id), for an id that is present
FindPanel(ps, id) == ps[CHOOSE i \in DOMAIN ps : ps[i].id = id /\ \A j \in 1..(i-1) : ps[j].id # id]

HasImage(imgs, id) == \E i \in DOMAIN imgs : imgs[i].id = id

\* images.find(img => img.id === id), for an id that is present
FindImage(imgs, id) == imgs[CHOOSE i \in DOMAIN imgs : imgs[i].id = id /\ \A j \in 1..(i-1) : imgs[j].id # id]

\* const selectedPanel = panels.find(p => p.id === selectedPanelId), as the
\* id of the panel found, Null when there is none.
SelectedPanelKey(ps, sel) == IF sel # Null /\ HasPanel(ps, sel) THEN sel ELSE Null

SlotIds(ps) == UNION {{ps[i].images[j].id : j \in DOMAIN ps[i].images} : i \in DOMAIN ps}

\* ------------------------------------------------- the layout resolver
\* let targetCount = 1; ... the three overriding ifs of handleChangeSplitLayout
TargetCountOffByOne(newLayout) ==
  IF newLayout = "QUAD" THEN 3
  ELSE IF newLayout \in {"TRIPLE_V", "TRIPLE_H", "BIG_LEFT", "BIG_RIGHT", "BIG_TOP", "BIG_BOTTOM"} THEN 3
  ELSE IF newLayout \in {"DOUBLE_V", "DOUBLE_H"} THEN 2
  ELSE 1
TargetCount(newLayout) ==
  IF newLayout = "QUAD" THEN 4
  ELSE IF newLayout \in {"TRIPLE_V", "TRIPLE_H", "BIG_LEFT", "BIG_RIGHT", "BIG_TOP", "BIG_BOTTOM"} THEN 3
  ELSE IF newLayout \in {"DOUBLE_V", "DOUBLE_H"} THEN 2
  ELSE 1

EmptyImage(id) == [id |-> id, url |-> EmptyText, prompt |-> EmptyText]

\* The slot list of a panel reconciled to targetCount; the i-th pushed slot
\* takes the i-th value uuidv4() returns, starting at firstId.
ReconcileImagesReusingId(images, targetCount, firstId) ==
  IF Len(images) < targetCount
  THEN images \o [i \in 1..(targetCount - Len(images)) |-> EmptyImage(images[1].id)]
  ELSE IF Len(images) > targetCount THEN SubSeq(images, 1, targetCount)
  ELSE images
ReconcileImages(images, targetCount, firstId) ==
  IF Len(images) < targetCount
  THEN images \o [i \in 1..(targetCount - Len(images)) |-> EmptyImage(firstId + i - 1)]
  ELSE IF Len(images) > targetCount THEN SubSeq(images, 1, targetCount)
  ELSE images

\* setPanels(prev => prev.map(panel => ...)) of handleChangeSplitLayout
ChangeSplitLayout(prev, panelId, newLayout, firstId) ==
  [i \in DOMAIN prev |->
     IF prev[i].id # panelId THEN prev[i]
     ELSE [prev[i] EXCEPT !.splitLayout = newLayout,
                          !.images = ReconcileImages(@, TargetCount(newLayout), firstId)]]

\* How many times handleChangeSplitLayout calls uuidv4()
IdsNeeded(prev, panelId, newLayout) ==
  IF HasPanel(prev, panelId) /\ Len(FindPanel(prev, panelId).images) < TargetCount(newLayout)
  THEN TargetCount(newLayout) - Len(FindPanel(prev, panelId).images)
  ELSE 0

\* --------------------------------------------------- single-field updates
UpdateCaptionOfEveryPanel(prev, id, caption) ==
  [i \in DOMAIN prev |-> [prev[i] EXCEPT !.caption = caption]]
UpdateCaption(prev, id, caption) ==
  [i \in DOMAIN prev |-> IF prev[i].id = id THEN [prev[i] EXCEPT !.caption = caption] ELSE prev[i]]

ToggleOverlay(prev, id, type) ==
  [i \in DOMAIN prev |-> IF prev[i].id = id THEN [prev[i] EXCEPT !.overlayType = type] ELSE prev[i]]

UpdatePanelSpan(prev, id, span) ==
  [i \in DOMAIN prev |-> IF prev[i].id = id THEN [prev[i] EXCEPT !.colSpan = span] ELSE prev[i]]

\* prev.filter(p => p.id !== id)
RECURSIVE RemovePanelKeepingOnlyId(_, _)
RemovePanelKeepingOnlyId(prev, id) ==
  IF prev = << >> THEN << >>
  ELSE IF Head(prev).id = id THEN <<Head(prev)>> \o RemovePanelKeepingOnlyId(Tail(prev), id)
       ELSE RemovePanelKeepingOnlyId(Tail(prev), id)
RECURSIVE RemovePanel(_, _)
RemovePanel(prev, id) ==
  IF prev = << >> THEN << >>
  ELSE IF Head(prev).id # id THEN <<Head(prev)>> \o RemovePanel(Tail(prev), id)
       ELSE RemovePanel(Tail(prev), id)

\* ----------------------------------------------- applying a gateway result
\* panel.images.map(img => img.id === activeSlotId ? {...img, url, prompt} : img)
FillImagesFirstSlot(images, slotId, url, text) ==
  [j \in DOMAIN images |->
     IF j = 1 THEN [images[j] EXCEPT !.url = url, !.prompt = text]
     ELSE images[j]]
FillImagesKeepingPrompt(images, slotId, url, text) ==
  [j \in DOMAIN images |->
     IF images[j].id = slotId THEN [images[j] EXCEPT !.url = url] ELSE images[j]]
FillImages(images, slotId, url, text) ==
  [j \in DOMAIN images |->
     IF images[j].id = slotId THEN [images[j] EXCEPT !.url = url, !.prompt = text]
     ELSE images[j]]

\* selectedPanel.images.map(img => img.id === activeSlotId ? {...img, url} : img)
EditImages(images, slotId, url) ==
  [j \in DOMAIN images |->
     IF images[j].id = slotId THEN [images[j] EXCEPT !.url = url] ELSE images[j]]

\* setPanels(prev => prev.map(p => p.id === id ? {...p, images: updatedImages} : p))
ReplaceImages(prev, id, updatedImages) ==
  [i \in DOMAIN prev |-> IF prev[i].id = id THEN [prev[i] EXCEPT !.images = updatedImages] ELSE prev[i]]

NewPanelWithoutPrompt(panelId, imageId, url, text) ==
  [id |-> panelId,
   images |-> <<[id |-> imageId, url |-> url, prompt |-> EmptyText]>>,
   splitLayout |-> "SINGLE",
   caption |-> EmptyText,
   aspectRatio |-> "1:1",
   overlayType |-> "NONE",
   colSpan |-> 1]
NewPanel(panelId, imageId, url, text) ==
  [id |-> panelId,
   images |-> <<[id |-> imageId, url |-> url, prompt |-> text]>>,
   splitLayout |-> "SINGLE",
   caption |-> EmptyText,
   aspectRatio |-> "1:1",
   overlayType |-> "NONE",
   colSpan |-> 1]

\* The success branch of handleGenerate after the await: sel, act and
\* captured are the selectedPanelId, activeSlotId and panels of the render
\* the handler was created in; prev is the panel list at the time of the
\* update.
ApplyGeneratedAppendingWhenPanelGone(prev, sel, act, captured, url, text, firstId) ==
  IF sel # Null /\ act # Null /\ HasPanel(prev, sel)
  THEN IF HasPanel(captured, sel)
       THEN ReplaceImages(prev, sel, FillImages(FindPanel(captured, sel).images, act, url, text))
       ELSE prev
  ELSE Append(prev, NewPanel(firstId, firstId + 1, url, text))
ApplyGenerated(prev, sel, act, captured, url, text, firstId) ==
  IF sel # Null /\ act # Null
  THEN IF HasPanel(captured, sel)
       THEN ReplaceImages(prev, sel, FillImages(FindPanel(captured, sel).images, act, url, text))
       ELSE prev
  ELSE Append(prev, NewPanel(firstId, firstId + 1, url, text))

\* The success branch of handleEdit after the await: selectedPanel is the
\* panel object of the render the handler was created in.
ApplyEditedRestoringPanel(prev, selectedPanel, act, url) ==
  IF HasPanel(prev, selectedPanel.id)
  THEN ReplaceImages(prev, selectedPanel.id, EditImages(selectedPanel.images, act, url))
  ELSE Append(prev, [selectedPanel EXCEPT !.images = EditImages(selectedPanel.images, act, url)])
ApplyEdited(prev, selectedPanel, act, url) ==
  ReplaceImages(prev, selectedPanel.id, EditImages(selectedPanel.images, act, url))

\* ------------------------------------------------------------- selection
\* The Toolbox effect keyed on selectedPanel?.id: it runs after a render in
\* which the key differs from the previous render's.
ToolboxEffect(prevKey, newKey, m) ==
  IF newKey # prevKey /\ newKey # Null /\ m # "STORY" THEN "EDIT" ELSE m

\* getLastPanelPrompt
RECURSIVE LastPrompt(_)
LastPrompt(images) ==
  IF images = << >> THEN EmptyText
  ELSE IF Trim(images[Len(images)].prompt) # EmptyText THEN images[Len(images)].prompt
       ELSE LastPrompt(SubSeq(images, 1, Len(images) - 1))

getLastPanelPrompt(ps) ==
  IF Len(ps) = 0 THEN EmptyText ELSE LastPrompt(ps[Len(ps)].images)

\* ------------------------------------------------------ prompt composition
\* getStylePrompt
getStylePrompt(st) ==
  CASE st = "MODERN" -> "modern comic book style, crisp lines, vibrant colors, digital art"
    [] st = "SUPERHERO" -> "classic american superhero comic style, marvel style, dynamic action poses, bold colors, detailed muscle anatomy, cinematic composition"
    [] st = "MANGA" -> "manga style, anime aesthetic, expressive characters, detailed ink lines, screentones"
    [] st = "GHIBLI" -> "studio ghibli style, hayao miyazaki art style, beautiful painted backgrounds, whimsical, soft colors, highly detailed nature"
    [] st = "NOIR" -> "film noir style, high contrast black and white comic, dramatic shadows, mysterious atmosphere, frank miller style"
    [] st = "RETRO" -> "vintage 1950s comic style, halftone dots, retro color palette, aged paper texture, golden age comics"
    [] st = "CYBERPUNK" -> "cyberpunk style, neon lights, futuristic city, high tech, rain-slicked streets, vibrant neon colors"
    [] st = "FANTASY" -> "fantasy comic style, oil painting aesthetic, epic lighting, dungeons and dragons art style"
    [] st = "HORROR" -> "horror comic style, junji ito style, eerie atmosphere, dark gritty details, high contrast"
    [] st = "SKETCH" -> "rough sketch comic style, pencil textures, loose lines, charcoal, artistic unfinished look"
    [] st = "WATERCOLOR" -> "watercolor comic style, artistic, soft edges, bleeding colors, dreamlike atmosphere"

\* `${c.name.trim()}: ${c.description.trim()}`
CharacterEntry(c) == Trim(c.name) \o <<": ">> \o Trim(c.description)

\* characters.map(...).join('. ') of App's getCharacterContextString
RECURSIVE JoinEntries(_)
JoinEntries(cs) ==
  IF cs = << >> THEN << >>
  ELSE IF Len(cs) = 1 THEN CharacterEntry(cs[1])
  ELSE CharacterEntry(cs[1]) \o <<". ">> \o JoinEntries(Tail(cs))

RECURSIVE JoinNames(_)
JoinNames(cs) ==
  IF cs = << >> THEN << >>
  ELSE IF Len(cs) = 1 THEN Trim(cs[1].name)
  ELSE Trim(cs[1].name) \o <<". ">> \o JoinNames(Tail(cs))
getCharacterContextStringNamesOnly(cs) ==
  IF Len(cs) = 0 THEN EmptyText ELSE JoinNames(cs)
getCharacterContextString(cs) ==
  IF Len(cs) = 0 THEN EmptyText ELSE JoinEntries(cs)

\* fullPrompt of handleGenerate
FullPrompt(st, cs, text) ==
  LET characterContext == getCharacterContextString(cs)
  IN  Trim(<<"\n", "Art Style: ", getStylePrompt(st), ".", "\n">>
           \o (IF characterContext # EmptyText
               THEN <<"Defined Characters (MUST MATCH EXACTLY): ">> \o characterContext \o <<".">>
               ELSE << >>)
           \o <<"\n", "Scene Description: ">> \o text \o <<".", "\n">>
           \o <<"(Ensure consistent character details). high quality masterpiece.", "\n">>)

\* fullEditPrompt of handleEdit
FullEditPrompt(cs, editPrompt) ==
  LET characterContext == getCharacterContextString(cs)
  IN  IF characterContext # EmptyText
      THEN <<"Edit Instruction: ">> \o editPrompt
           \o <<". (Maintain character consistency: ">> \o characterContext \o <<")">>
      ELSE editPrompt

\* <Button disabled={isLoading || disabled}>
ButtonDisabledIgnoringLoading(isLoading, disabled) == disabled
ButtonDisabled(isLoading, disabled) == isLoading \/ disabled

NoOp == [op |-> "init"]

Init ==
  /\ panels = << >>
  /\ selectedPanelId = Null
  /\ activeSlotId = Null
  /\ mode = "CREATE"
  /\ loadingState = FALSE
  /\ prompt = EmptyText
  /\ uploadedSketch = EmptyText
  /\ narrativeContext = EmptyText
  /\ characters = << >>
  /\ style = "MODERN"
  /\ inflight = << >>
  /\ nextId = 1
  /\ discarded = {}
  /\ steps = 0
  /\ budget = MaxSteps
  /\ lastOp = NoOp

\* The state after construction, for sessions of up to MaxDeepSteps events.
DeepInit ==
  /\ panels = << >>
  /\ selectedPanelId = Null
  /\ activeSlotId = Null
  /\ mode = "CREATE"
  /\ loadingState = FALSE
  /\ prompt = EmptyText
  /\ uploadedSketch = EmptyText
  /\ narrativeContext = EmptyText
  /\ characters = << >>
  /\ style = "MODERN"
  /\ inflight = << >>
  /\ nextId = 1
  /\ discarded = {}
  /\ steps = 0
  /\ budget = MaxDeepSteps
  /\ lastOp = NoOp


\* Every user event counts towards the bound on the length of a session;
\* the settling of a gateway promise does not.
Tick == steps < budget /\ steps' = steps + 1 /\ budget' = budget

\* ------------------------------------------------------------ what renders
SelectedPanelExists == HasPanel(panels, selectedPanelId)

\* The form is rendered in CREATE mode, and in EDIT mode with a selected panel.
FormRendered == mode = "CREATE" \/ (mode = "EDIT" /\ SelectedPanelExists)

\* The submit <Button isLoading={isProcessing} disabled={...}>
SubmitDisabled ==
  ButtonDisabled(loadingState, PromptBlank(prompt) \/ (mode = "EDIT" /\ ~SelectedPanelExists))

\* The three story-assist buttons
StoryButtonDisabled(type) ==
  ButtonDisabled(loadingState,
                 CASE type = "PLOT" -> FALSE
                   [] type = "NEXT_PANEL" -> Len(panels) = 0
                   [] type = "DIALOGUE" -> ~SelectedPanelExists)

\* ------------------------------------------------------ Toolbox text input
\* onChange of the prompt textarea (disabled={isProcessing})
TypePrompt(text) ==
  /\ Tick
  /\ UNCHANGED <<characters, style>>
  /\ FormRendered
  /\ ~loadingState
  /\ prompt' = text
  /\ lastOp' = [op |-> "input"]
  /\ UNCHANGED <<panels, selectedPanelId, activeSlotId, mode, loadingState,
                 uploadedSketch, narrativeContext, inflight, nextId, discarded>>

\* handleFileChange, with the reader's onloadend
UploadSketch(sketch) ==
  /\ Tick
  /\ UNCHANGED <<characters, style>>
  /\ mode = "CREATE"
  /\ uploadedSketch = EmptyText
  /\ uploadedSketch' = sketch
  /\ lastOp' = [op |-> "input"]
  /\ UNCHANGED <<panels, selectedPanelId, activeSlotId, mode, loadingState,
                 prompt, narrativeContext, inflight, nextId, discarded>>

\* the remove button over the sketch preview
ClearSketch ==
  /\ Tick
  /\ UNCHANGED <<characters, style>>
  /\ mode = "CREATE"
  /\ uploadedSketch # EmptyText
  /\ uploadedSketch' = EmptyText
  /\ lastOp' = [op |-> "input"]
  /\ UNCHANGED <<panels, selectedPanelId, activeSlotId, mode, loadingState,
                 prompt, narrativeContext, inflight, nextId, discarded>>

\* onChange of the idea textarea
TypeNarrativeContext(text) ==
  /\ Tick
  /\ UNCHANGED <<characters, style>>
  /\ mode = "STORY"
  /\ narrativeContext' = text
  /\ lastOp' = [op |-> "input"]
  /\ UNCHANGED <<panels, selectedPanelId, activeSlotId, mode, loadingState,
                 prompt, uploadedSketch, inflight, nextId, discarded>>

\* the Create / Tools / Story buttons
SetMode(m) ==
  /\ Tick
  /\ UNCHANGED <<characters, style>>
  /\ mode' = m
  /\ lastOp' = [op |-> "input"]
  /\ UNCHANGED <<panels, selectedPanelId, activeSlotId, loadingState, prompt,
                 uploadedSketch, narrativeContext, inflight, nextId, discarded>>

\* onChange of the art-style select of the CREATE form
SetStyle(st) ==
  /\ Tick
  /\ mode = "CREATE"
  /\ style' = st
  /\ lastOp' = [op |-> "input"]
  /\ UNCHANGED <<panels, selectedPanelId, activeSlotId, mode, loadingState, prompt,
                 uploadedSketch, narrativeContext, characters, inflight, nextId,
                 discarded>>

\* ------------------------------------------------- character definitions
\* handleAddCharacter from the Add Character button of the global settings
AddCharacter ==
  /\ Tick
  /\ mode = "EDIT"
  /\ Len(characters) < MaxCharacters
  /\ nextId <= MaxIds
  /\ characters' = Append(characters, [id |-> nextId, name |-> EmptyText, description |-> EmptyText])
  /\ nextId' = nextId + 1
  /\ lastOp' = [op |-> "input"]
  /\ UNCHANGED <<panels, selectedPanelId, activeSlotId, mode, loadingState, prompt,
                 uploadedSketch, narrativeContext, style, inflight, discarded>>

\* handleUpdateCharacter from a character's name or description field
UpdateCharacter(id, field, value) ==
  /\ Tick
  /\ mode = "EDIT"
  /\ \E k \in DOMAIN characters : characters[k].id = id
  /\ characters' = [k \in DOMAIN characters |->
                      IF characters[k].id = id THEN [characters[k] EXCEPT ![field] = value]
                      ELSE characters[k]]
  /\ lastOp' = [op |-> "input"]
  /\ UNCHANGED <<panels, selectedPanelId, activeSlotId, mode, loadingState, prompt,
                 uploadedSketch, narrativeContext, style, inflight, nextId, discarded>>

\* handleRemoveCharacter from a character's remove button
RemoveCharacter(id) ==
  /\ Tick
  /\ mode = "EDIT"
  /\ \E k \in DOMAIN characters : characters[k].id = id
  /\ characters' = SelectSeq(characters, LAMBDA c : c.id # id)
  /\ lastOp' = [op |-> "input"]
  /\ UNCHANGED <<panels, selectedPanelId, activeSlotId, mode, loadingState, prompt,
                 uploadedSketch, narrativeContext, style, inflight, nextId, discarded>>

\* --------------------------------------------------------------- selection
\* handlePanelSelect: the click on a panel card outside its slots
PanelSelectKeepingActiveSlot(id) ==
  /\ Tick
  /\ UNCHANGED <<characters, style>>
  /\ HasPanel(panels, id)
  /\ IF selectedPanelId # id
     THEN /\ selectedPanelId' = id
          /\ activeSlotId' = IF activeSlotId # Null THEN activeSlotId
                             ELSE FindPanel(panels, id).images[1].id
     ELSE UNCHANGED <<selectedPanelId, activeSlotId>>
  /\ mode' = ToolboxEffect(SelectedPanelKey(panels, selectedPanelId),
                           SelectedPanelKey(panels, selectedPanelId'), mode)
  /\ lastOp' = [op |-> "panelSelect", panelId |-> id, previous |-> selectedPanelId]
  /\ UNCHANGED <<panels, loadingState, prompt, uploadedSketch, narrativeContext,
                 inflight, nextId, discarded>>
PanelSelect(id) ==
  /\ Tick
  /\ UNCHANGED <<characters, style>>
  /\ HasPanel(panels, id)
  /\ IF selectedPanelId # id
     THEN /\ selectedPanelId' = id
          /\ activeSlotId' = IF Len(FindPanel(panels, id).images) > 0
                             THEN FindPanel(panels, id).images[1].id
                             ELSE activeSlotId
     ELSE UNCHANGED <<selectedPanelId, activeSlotId>>
  /\ mode' = ToolboxEffect(SelectedPanelKey(panels, selectedPanelId),
                           SelectedPanelKey(panels, selectedPanelId'), mode)
  /\ lastOp' = [op |-> "panelSelect", panelId |-> id, previous |-> selectedPanelId]
  /\ UNCHANGED <<panels, loadingState, prompt, uploadedSketch, narrativeContext,
                 inflight, nextId, discarded>>

\* The mode handleSlotSelect leaves, decided on the image it finds
SlotSelectModeOnlyForEmpty(ps, panelId, imageId, m) ==
  IF HasPanel(ps, panelId) /\ HasImage(FindPanel(ps, panelId).images, imageId)
  THEN LET image == FindImage(FindPanel(ps, panelId).images, imageId)
       IN  IF image.url = EmptyText THEN "CREATE" ELSE m
  ELSE m
SlotSelectMode(ps, panelId, imageId, m) ==
  IF HasPanel(ps, panelId) /\ HasImage(FindPanel(ps, panelId).images, imageId)
  THEN LET image == FindImage(FindPanel(ps, panelId).images, imageId)
       IN  IF image.url = EmptyText THEN "CREATE"
           ELSE IF m = "CREATE" THEN "EDIT" ELSE m
  ELSE m

\* The click on a slot: onSelect(panel.id) then onSelectSlot(panel.id, img.id)
SlotSelect(panelId, imageId) ==
  /\ Tick
  /\ UNCHANGED <<characters, style>>
  /\ HasPanel(panels, panelId)
  /\ HasImage(FindPanel(panels, panelId).images, imageId)
  /\ selectedPanelId' = panelId
  /\ activeSlotId' = imageId
  /\ mode' = ToolboxEffect(SelectedPanelKey(panels, selectedPanelId),
                           SelectedPanelKey(panels, panelId),
                           SlotSelectMode(panels, panelId, imageId, mode))
  /\ lastOp' = [op |-> "slotSelect", mode |-> mode, panelId |-> panelId, slotId |-> imageId]
  /\ UNCHANGED <<panels, loadingState, prompt, uploadedSketch, narrativeContext,
                 inflight, nextId, discarded>>

\* ------------------------------------------------------------ panel edits
\* handleUpdateCaption from the caption field of a panel card
CaptionChange(id, caption) ==
  /\ Tick
  /\ UNCHANGED <<characters, style>>
  /\ HasPanel(panels, id)
  /\ FindPanel(panels, id).overlayType = "NONE" \/ selectedPanelId = id
  /\ panels' = UpdateCaption(panels, id, caption)
  /\ lastOp' = [op |-> "setCaption", panelId |-> id, caption |-> caption]
  /\ UNCHANGED <<selectedPanelId, activeSlotId, mode, loadingState, prompt,
                 uploadedSketch, narrativeContext, inflight, nextId, discarded>>

\* handleToggleOverlay: the card's remove-text button (overlay NONE, on the
\* selected card) or a Toolbox overlay button (EDIT mode, selected panel)
OverlayToggle(id, type) ==
  /\ Tick
  /\ UNCHANGED <<characters, style>>
  /\ HasPanel(panels, id)
  /\ selectedPanelId = id
  /\ type = "NONE" \/ mode = "EDIT"
  /\ panels' = ToggleOverlay(panels, id, type)
  /\ lastOp' = [op |-> "setOverlay", panelId |-> id, overlayType |-> type]
  /\ UNCHANGED <<selectedPanelId, activeSlotId, mode, loadingState, prompt,
                 uploadedSketch, narrativeContext, inflight, nextId, discarded>>

\* handleUpdatePanelSpan from a Toolbox size button (disabled above maxSpan)
SpanChange(id, span) ==
  /\ Tick
  /\ UNCHANGED <<characters, style>>
  /\ mode = "EDIT"
  /\ HasPanel(panels, id)
  /\ selectedPanelId = id
  /\ span <= MaxSpanStandard
  /\ panels' = UpdatePanelSpan(panels, id, span)
  /\ lastOp' = [op |-> "setSpan", panelId |-> id, colSpan |-> span]
  /\ UNCHANGED <<selectedPanelId, activeSlotId, mode, loadingState, prompt,
                 uploadedSketch, narrativeContext, inflight, nextId, discarded>>

\* handleChangeSplitLayout from a Toolbox layout button
LayoutChange(id, newLayout) ==
  /\ Tick
  /\ UNCHANGED <<characters, style>>
  /\ mode = "EDIT"
  /\ HasPanel(panels, id)
  /\ selectedPanelId = id
  /\ nextId + IdsNeeded(panels, id, newLayout) - 1 <= MaxIds
  /\ panels' = ChangeSplitLayout(panels, id, newLayout, nextId)
  /\ nextId' = nextId + IdsNeeded(panels, id, newLayout)
  /\ discarded' = discarded \cup
                  { FindPanel(panels, id).images[j].id :
                      j \in (TargetCount(newLayout) + 1)..Len(FindPanel(panels, id).images) }
  /\ lastOp' = [op |-> "setLayout", panelId |-> id, layout |-> newLayout,
                from |-> Len(FindPanel(panels, id).images)]
  /\ UNCHANGED <<selectedPanelId, activeSlotId, mode, loadingState, prompt,
                 uploadedSketch, narrativeContext, inflight>>

\* handleDeletePanel from the delete button of a panel card
DeletePanelKeepingActiveSlot(id) ==
  /\ Tick
  /\ UNCHANGED <<characters, style>>
  /\ HasPanel(panels, id)
  /\ panels' = RemovePanel(panels, id)
  /\ IF selectedPanelId = id
     THEN selectedPanelId' = Null /\ activeSlotId' = activeSlotId
     ELSE UNCHANGED <<selectedPanelId, activeSlotId>>
  /\ mode' = ToolboxEffect(SelectedPanelKey(panels, selectedPanelId),
                           SelectedPanelKey(panels', selectedPanelId'), mode)
  /\ lastOp' = [op |-> "delete", panelId |-> id]
  /\ UNCHANGED <<loadingState, prompt, uploadedSketch, narrativeContext,
                 inflight, nextId, discarded>>
DeletePanel(id) ==
  /\ Tick
  /\ UNCHANGED <<characters, style>>
  /\ HasPanel(panels, id)
  /\ panels' = RemovePanel(panels, id)
  /\ IF selectedPanelId = id
     THEN selectedPanelId' = Null /\ activeSlotId' = Null
     ELSE UNCHANGED <<selectedPanelId, activeSlotId>>
  /\ mode' = ToolboxEffect(SelectedPanelKey(panels, selectedPanelId),
                           SelectedPanelKey(panels', selectedPanelId'), mode)
  /\ lastOp' = [op |-> "delete", panelId |-> id]
  /\ UNCHANGED <<loadingState, prompt, uploadedSketch, narrativeContext,
                 inflight, nextId, discarded>>

\* ---------------------------------------------------------------- requests
RemoveAtKeepingRequest(q, i) == q
RemoveAt(q, i) == SubSeq(q, 1, i - 1) \o SubSeq(q, i + 1, Len(q))

\* handleGenerate up to its await, then the rest of handleSubmit
GenerateStart ==
  /\ Len(inflight) < MaxInflight
  /\ loadingState' = TRUE
  /\ inflight' = Append(inflight,
                        [kind |-> "generate",
                         sketch |-> uploadedSketch,
                         prompt |-> prompt,
                         fullPrompt |-> FullPrompt(style, characters, prompt),
                         selectedPanelId |-> selectedPanelId,
                         activeSlotId |-> activeSlotId,
                         panels |-> panels])
  /\ prompt' = EmptyText
  /\ uploadedSketch' = EmptyText
  /\ lastOp' = [op |-> "submit", kind |-> "generate", outcome |-> "sent"]
  /\ UNCHANGED <<panels, selectedPanelId, activeSlotId, mode, narrativeContext,
                 nextId, discarded>>

\* The two early returns of handleEdit
EditRejectedIgnoringUrl ==
  \/ ~SelectedPanelExists
  \/ activeSlotId = Null
  \/ ~HasImage(FindPanel(panels, selectedPanelId).images, activeSlotId)
EditRejected ==
  \/ ~SelectedPanelExists
  \/ activeSlotId = Null
  \/ ~HasImage(FindPanel(panels, selectedPanelId).images, activeSlotId)
  \/ FindImage(FindPanel(panels, selectedPanelId).images, activeSlotId).url = EmptyText

\* handleEdit up to its return or its await, then the rest of handleSubmit
EditStart ==
  /\ IF EditRejected
     THEN /\ lastOp' = [op |-> "submit", kind |-> "edit", outcome |-> "rejected"]
          /\ UNCHANGED <<loadingState, inflight>>
     ELSE /\ Len(inflight) < MaxInflight
          /\ loadingState' = TRUE
          /\ inflight' = Append(inflight,
                                [kind |-> "edit",
                                 fullPrompt |-> FullEditPrompt(characters, prompt),
                                 selectedPanel |-> FindPanel(panels, selectedPanelId),
                                 activeSlotId |-> activeSlotId,
                                 source |-> IF HasImage(FindPanel(panels, selectedPanelId).images, activeSlotId)
                                            THEN FindImage(FindPanel(panels, selectedPanelId).images, activeSlotId).url
                                            ELSE EmptyText])
          /\ lastOp' = [op |-> "submit", kind |-> "edit", outcome |-> "sent"]
  /\ prompt' = EmptyText
  /\ UNCHANGED <<panels, selectedPanelId, activeSlotId, mode, uploadedSketch,
                 narrativeContext, nextId, discarded>>

\* A submission of the form: nothing is dispatched while the submit button is
\* disabled; otherwise handleSubmit runs.
FormSubmit ==
  /\ Tick
  /\ UNCHANGED <<characters, style>>
  /\ FormRendered
  /\ IF SubmitDisabled \/ PromptBlank(prompt)
     THEN /\ lastOp' = [op |-> "submit", kind |-> "none", outcome |-> "ignored"]
          /\ UNCHANGED <<panels, selectedPanelId, activeSlotId, mode, loadingState,
                         prompt, uploadedSketch, narrativeContext, inflight,
                         nextId, discarded>>
     ELSE IF mode = "CREATE" THEN GenerateStart
     ELSE EditStart

\* The context handleStoryAssist passes on
StoryContext(type) ==
  IF type = "DIALOGUE" /\ SelectedPanelExists
  THEN LET images == FindPanel(panels, selectedPanelId).images
       IN  IF HasImage(images, activeSlotId) THEN FindImage(images, activeSlotId).prompt
           ELSE IF Len(images) > 0 THEN images[1].prompt ELSE EmptyText
  ELSE IF type = "NEXT_PANEL" /\ getLastPanelPrompt(panels) # EmptyText
  THEN getLastPanelPrompt(panels)
  ELSE narrativeContext

\* handleStoryAssist up to its await, through handleNarrativeAssist
StoryAssist(type) ==
  /\ Tick
  /\ UNCHANGED <<characters, style>>
  /\ mode = "STORY"
  /\ ~StoryButtonDisabled(type)
  /\ Len(inflight) < MaxInflight
  /\ loadingState' = TRUE
  /\ inflight' = Append(inflight,
                        [kind |-> "narrative",
                         type |-> type,
                         characterContext |-> getCharacterContextString(characters),
                         context |-> StoryContext(type),
                         selectedPanel |-> SelectedPanelKey(panels, selectedPanelId)])
  /\ lastOp' = [op |-> "storyAssist", kind |-> "narrative", outcome |-> "sent"]
  /\ UNCHANGED <<panels, selectedPanelId, activeSlotId, mode, prompt,
                 uploadedSketch, narrativeContext, nextId, discarded>>

\* finally { setLoadingState({ isLoading: false, message: '' }) }: the flag
\* after a handler's promise has settled, ok telling whether the try block
\* completed.
LoadingAfterSettleSkippingFinally(ok) == ~ok
LoadingAfterSettle(ok) == FALSE

\* handleGenerate from its await on
GenerateSettles(i, resp) ==
  LET r == inflight[i]
      res == IF r.sketch # EmptyText THEN generateImageFromSketch(resp)
             ELSE generateComicImage(resp)
      appends == r.selectedPanelId = Null \/ r.activeSlotId = Null
  IN  /\ r.kind = "generate"
      /\ IF res.ok
         THEN /\ appends => (Len(panels) < MaxPanels /\ nextId + 1 <= MaxIds)
              /\ panels' = ApplyGenerated(panels, r.selectedPanelId, r.activeSlotId,
                                          r.panels, res.value, r.prompt, nextId)
              /\ nextId' = IF appends THEN nextId + 2 ELSE nextId
         ELSE UNCHANGED <<panels, nextId>>
      /\ loadingState' = LoadingAfterSettle(res.ok)
      /\ inflight' = RemoveAt(inflight, i)
      /\ lastOp' = [op |-> "settled", kind |-> "generate", ok |-> res.ok,
                    panelId |-> r.selectedPanelId, slotId |-> r.activeSlotId]
      /\ UNCHANGED <<selectedPanelId, activeSlotId, mode, prompt, uploadedSketch,
                     narrativeContext, discarded, steps, budget, characters, style>>

\* handleEdit from its await on
EditSettles(i, resp) ==
  LET r == inflight[i]
      res == editComicImage(resp)
  IN  /\ r.kind = "edit"
      /\ panels' = IF res.ok
                   THEN ApplyEdited(panels, r.selectedPanel, r.activeSlotId, res.value)
                   ELSE panels
      /\ loadingState' = LoadingAfterSettle(res.ok)
      /\ inflight' = RemoveAt(inflight, i)
      /\ lastOp' = [op |-> "settled", kind |-> "edit", ok |-> res.ok,
                    panelId |-> r.selectedPanel.id, slotId |-> r.activeSlotId]
      /\ UNCHANGED <<selectedPanelId, activeSlotId, mode, prompt, uploadedSketch,
                     narrativeContext, nextId, discarded, steps, budget, characters, style>>

\* handleNarrativeAssist from its await on, then the rest of handleStoryAssist
NarrativeSettlesCaptioningEveryKind(i, resp) ==
  LET r == inflight[i]
      res == generateNarrativeElement(resp)
      result == IF res.ok THEN res.value ELSE EmptyText
  IN  /\ r.kind = "narrative"
      /\ IF r.type \in {"PLOT", "NEXT_PANEL"}
         THEN /\ prompt' = result
              /\ mode' = "CREATE"
              /\ panels' = IF r.selectedPanel # Null
                           THEN UpdateCaption(panels, r.selectedPanel, result)
                           ELSE panels
         ELSE /\ panels' = IF r.selectedPanel # Null
                           THEN UpdateCaption(panels, r.selectedPanel, result)
                           ELSE panels
              /\ UNCHANGED <<prompt, mode>>
      /\ narrativeContext' = EmptyText
      /\ loadingState' = LoadingAfterSettle(res.ok)
      /\ inflight' = RemoveAt(inflight, i)
      /\ lastOp' = [op |-> "settled", kind |-> "narrative", ok |-> res.ok,
                    panelId |-> r.selectedPanel, type |-> r.type]
      /\ UNCHANGED <<selectedPanelId, activeSlotId, uploadedSketch, nextId, discarded,
                     steps, budget, characters, style>>
NarrativeSettles(i, resp) ==
  LET r == inflight[i]
      res == generateNarrativeElement(resp)
      result == IF res.ok THEN res.value ELSE EmptyText
  IN  /\ r.kind = "narrative"
      /\ IF r.type \in {"PLOT", "NEXT_PANEL"}
         THEN /\ prompt' = result
              /\ mode' = "CREATE"
              /\ UNCHANGED panels
         ELSE /\ panels' = IF r.selectedPanel # Null
                           THEN UpdateCaption(panels, r.selectedPanel, result)
                           ELSE panels
              /\ UNCHANGED <<prompt, mode>>
      /\ narrativeContext' = EmptyText
      /\ loadingState' = LoadingAfterSettle(res.ok)
      /\ inflight' = RemoveAt(inflight, i)
      /\ lastOp' = [op |-> "settled", kind |-> "narrative", ok |-> res.ok,
                    panelId |-> r.selectedPanel, type |-> r.type]
      /\ UNCHANGED <<selectedPanelId, activeSlotId, uploadedSketch, nextId, discarded,
                     steps, budget, characters, style>>

\* ------------------------------------------------------- the specification
Next ==
  \/ \E text \in PromptInputs : TypePrompt(text)
  \/ \E sketch \in SketchInputs : UploadSketch(sketch)
  \/ ClearSketch
  \/ \E text \in ContextInputs : TypeNarrativeContext(text)
  \/ \E m \in GenerationMode : SetMode(m)
  \/ \E id \in PanelIds(panels) : PanelSelect(id)
  \/ \E id \in PanelIds(panels) : \E j \in DOMAIN FindPanel(panels, id).images :
        SlotSelect(id, FindPanel(panels, id).images[j].id)
  \/ \E id \in PanelIds(panels) : \E caption \in CaptionInputs : CaptionChange(id, caption)
  \/ \E id \in PanelIds(panels) : \E type \in OverlayInputs : OverlayToggle(id, type)
  \/ \E id \in PanelIds(panels) : \E span \in SpanInputs : SpanChange(id, span)
  \/ \E id \in PanelIds(panels) : \E newLayout \in PanelSplitLayout : LayoutChange(id, newLayout)
  \/ \E id \in PanelIds(panels) : DeletePanel(id)
  \/ FormSubmit
  \/ \E type \in NarrativeTypes : StoryAssist(type)
  \/ \E i \in DOMAIN inflight : \E resp \in ImageResponses : GenerateSettles(i, resp)
  \/ \E i \in DOMAIN inflight : \E resp \in ImageResponses : EditSettles(i, resp)
  \/ \E i \in DOMAIN inflight : \E resp \in TextResponses : NarrativeSettles(i, resp)

Spec == Init /\ [][Next]_vars

\* The same program in sessions of up to MaxDeepSteps user events.
DeepSpec == DeepInit /\ [][Next]_vars

\* The character definitions and the prompts composed from them, apart from
\* the operations of the panel store that neither read nor write them: the
\* roster is edited, a style is chosen, prompts are submitted for a new panel
\* and as edits of a selected panel.  In Spec the roster stays as App
\* creates it.
RosterNext ==
  \/ AddCharacter
  \/ \E k \in DOMAIN characters : \E name \in NameInputs :
        UpdateCharacter(characters[k].id, "name", name)
  \/ \E k \in DOMAIN characters : \E description \in DescriptionInputs :
        UpdateCharacter(characters[k].id, "description", description)
  \/ \E k \in DOMAIN characters : RemoveCharacter(characters[k].id)
  \/ \E st \in StyleInputs : SetStyle(st)
  \/ \E m \in GenerationMode : SetMode(m)
  \/ \E text \in PromptInputs : TypePrompt(text)
  \/ \E id \in PanelIds(panels) : PanelSelect(id)
  \/ FormSubmit
  \/ \E i \in DOMAIN inflight : \E resp \in ImageResponses : GenerateSettles(i, resp)
  \/ \E i \in DOMAIN inflight : \E resp \in ImageResponses : EditSettles(i, resp)

RosterSpec == Init /\ [][RosterNext]_vars

\* The gateway answers: the promise of an outstanding request settles.
GatewayResponds ==
  \/ \E i \in DOMAIN inflight : \E resp \in ImageResponses : GenerateSettles(i, resp)
  \/ \E i \in DOMAIN inflight : \E resp \in ImageResponses : EditSettles(i, resp)
  \/ \E i \in DOMAIN inflight : \E resp \in TextResponses : NarrativeSettles(i, resp)

\* The behaviours in which the provider answers every request: a handler
\* awaiting its promise resumes once the promise settles.  The sessions are
\* those of at most MaxLiveSteps user events.
LiveNext == Next /\ steps' <= MaxLiveSteps

LiveSpec == Init /\ [][LiveNext]_vars /\ WF_vars(GatewayResponds)

\* ================================================================= claims
\* The slot count the layout table assigns to each split-layout tag.
SlotCountTable ==
  [layout \in PanelSplitLayout |->
     CASE layout = "SINGLE" -> 1
       [] layout \in {"DOUBLE_V", "DOUBLE_H"} -> 2
       [] layout \in {"TRIPLE_V", "TRIPLE_H", "BIG_LEFT", "BIG_RIGHT", "BIG_TOP", "BIG_BOTTOM"} -> 3
       [] layout = "QUAD" -> 4]

HasSlot(ps, pid, sid) == HasPanel(ps, pid) /\ HasImage(FindPanel(ps, pid).images, sid)

SlotAt(ps, pid, sid) == FindImage(FindPanel(ps, pid).images, sid)

\* C1: in every reachable state every panel has as many image slots as the
\* layout table assigns to its split-layout tag.
C1_SlotCountMatchesLayout ==
  \A k \in DOMAIN panels : Len(panels[k].images) = SlotCountTable[panels[k].splitLayout]

\* C2: immediately after set-layout(panelId, layout), for each of the ten
\* tags, the panel carries that tag and has exactly the table's slot count,
\* whatever its layout and slot count were before.
C2_SetLayoutGivesTableCount ==
  [][lastOp'.op = "setLayout" =>
       /\ HasPanel(panels', lastOp'.panelId)
       /\ FindPanel(panels', lastOp'.panelId).splitLayout = lastOp'.layout
       /\ Len(FindPanel(panels', lastOp'.panelId).images) = SlotCountTable[lastOp'.layout]]_vars

C2_Witness ==
  /\ lastOp.op = "setLayout"
  /\ lastOp.from = 1
  /\ HasPanel(panels, selectedPanelId)
  /\ FindPanel(panels, selectedPanelId).splitLayout = "BIG_BOTTOM"
  /\ Len(FindPanel(panels, selectedPanelId).images) = 3

\* C3: when set-layout raises the slot count from m to n > m, the first m
\* slots are the previous slots unchanged and in order, and slots m+1..n are
\* new: empty image reference, empty prompt, and an identity no existing
\* slot has and no other new slot has.
C3_GrowAppendsFreshEmptySlots ==
  [][(lastOp'.op = "setLayout" /\ lastOp'.from < SlotCountTable[lastOp'.layout]) =>
       LET old == FindPanel(panels, lastOp'.panelId).images
           new == FindPanel(panels', lastOp'.panelId).images
           m == Len(old)
           n == SlotCountTable[lastOp'.layout]
       IN  /\ Len(new) = n
           /\ SubSeq(new, 1, m) = old
           /\ \A j \in (m + 1)..n :
                /\ new[j].url = EmptyText
                /\ new[j].prompt = EmptyText
                /\ new[j].id \notin SlotIds(panels)
                /\ \A k \in 1..n : k # j => new[k].id # new[j].id]_vars

C3_Witness ==
  /\ lastOp.op = "setLayout"
  /\ lastOp.from = 1
  /\ HasPanel(panels, selectedPanelId)
  /\ LET p == FindPanel(panels, selectedPanelId)
     IN  /\ p.splitLayout = "QUAD"
         /\ Len(p.images) = 4
         /\ p.images[1].url # EmptyText
         /\ \A j \in 2..4 : p.images[j].url = EmptyText /\ p.images[j].prompt = EmptyText

\* C4: when set-layout lowers the slot count from m to n < m the result is
\* exactly the first n previous slots, and no later step brings a dropped
\* slot back into the panel list.
C4_ShrinkKeepsPrefixForGood ==
  [][/\ (lastOp'.op = "setLayout" /\ lastOp'.from > SlotCountTable[lastOp'.layout]) =>
          FindPanel(panels', lastOp'.panelId).images =
            SubSeq(FindPanel(panels, lastOp'.panelId).images, 1, SlotCountTable[lastOp'.layout])
     /\ SlotIds(panels') \cap discarded' = {}]_vars

\* The slots present before and after a step whose image reference or
\* prompt the step changed.
WrittenSlots ==
  { pair \in PanelIds(panels) \X SlotIds(panels) :
      /\ HasSlot(panels, pair[1], pair[2])
      /\ HasSlot(panels', pair[1], pair[2])
      /\ \/ SlotAt(panels', pair[1], pair[2]).url # SlotAt(panels, pair[1], pair[2]).url
         \/ SlotAt(panels', pair[1], pair[2]).prompt # SlotAt(panels, pair[1], pair[2]).prompt }

\* C5 (as stated): when a generate result is applied, an existing slot is
\* written only if it is the active slot of the selected panel at that moment.
C5_WrittenSlotIsCurrentSelection ==
  [][(lastOp'.op = "settled" /\ lastOp'.kind = "generate") =>
       \A pair \in WrittenSlots : pair = <<selectedPanelId, activeSlotId>>]_vars

\* C5 (amended): when a generate result is applied, an existing slot is
\* written only if it was the active slot of the selected panel when the
\* request was submitted.
C5_WrittenSlotIsSubmittedTarget ==
  [][(lastOp'.op = "settled" /\ lastOp'.kind = "generate") =>
       \A pair \in WrittenSlots : pair = <<lastOp'.panelId, lastOp'.slotId>>]_vars

\* A generate result has just filled the slot it was submitted for, and the
\* selection has moved elsewhere in the meantime.
C5_Witness ==
  /\ lastOp.op = "settled"
  /\ lastOp.kind = "generate"
  /\ lastOp.ok
  /\ selectedPanelId # Null
  /\ <<lastOp.panelId, lastOp.slotId>> # <<selectedPanelId, activeSlotId>>
  /\ HasSlot(panels, lastOp.panelId, lastOp.slotId)
  /\ SlotAt(panels, lastOp.panelId, lastOp.slotId).url # EmptyText
  /\ \E k \in DOMAIN panels : \E j \in DOMAIN panels[k].images :
       panels[k].images[j].url = EmptyText

\* new is old with at most the image reference and prompt of slot (pid, sid)
\* replaced.
SameExceptSlotContent(old, new, pid, sid) ==
  /\ Len(new) = Len(old)
  /\ \A k \in DOMAIN old :
       IF old[k].id # pid THEN new[k] = old[k]
       ELSE /\ [new[k] EXCEPT !.images = old[k].images] = old[k]
            /\ Len(new[k].images) = Len(old[k].images)
            /\ \A j \in DOMAIN old[k].images :
                 IF old[k].images[j].id # sid THEN new[k].images[j] = old[k].images[j]
                 ELSE new[k].images[j].id = sid

\* C6: applying a successful generate result to a slot changes only that
\* slot's image reference and prompt; every other slot of the panel (also the
\* slots a layout change added while the request was in flight), the panel's
\* other fields and every other panel are as they were just before.
C6_GenerateResultTouchesOneSlot ==
  [][(/\ lastOp'.op = "settled"
      /\ lastOp'.kind = "generate"
      /\ lastOp'.ok
      /\ HasPanel(panels, lastOp'.panelId)) =>
       SameExceptSlotContent(panels, panels', lastOp'.panelId, lastOp'.slotId)]_vars

\* The provider's answer is a failure: the transport threw, or the answer
\* carries no usable payload.
GatewayFailed(resp) ==
  \/ resp.kind \in {"throw", "missing", "undefined"}
  \/ resp.kind = "bytes" /\ resp.bytes = ""
  \/ resp.kind = "text" /\ resp.text = EmptyText

\* C7: when the gateway call of a generate, edit or narrative request fails,
\* the busy flag is cleared and the panel list, the selection pointers and
\* the UI mode are left as they were.
C7_FailureChangesNothing ==
  [][\A i \in DOMAIN inflight :
       /\ \A resp \in ImageResponses :
            ((GenerateSettles(i, resp) \/ EditSettles(i, resp)) /\ GatewayFailed(resp)) =>
              (~loadingState' /\ UNCHANGED <<panels, selectedPanelId, activeSlotId, mode>>)
       /\ \A resp \in TextResponses :
            (NarrativeSettles(i, resp) /\ GatewayFailed(resp)) =>
              (~loadingState' /\ UNCHANGED <<panels, selectedPanelId, activeSlotId, mode>>)]_vars

OnlyWhitespace(text) == \A k \in DOMAIN text : text[k] = " "

\* The active slot of the selected panel is no target for an edit: there is
\* no selected panel, no active slot, or the slot has no image.
NoEditTarget ==
  \/ selectedPanelId = Null
  \/ activeSlotId = Null
  \/ ~HasSlot(panels, selectedPanelId, activeSlotId)
  \/ SlotAt(panels, selectedPanelId, activeSlotId).url = EmptyText

\* C8: an edit submitted (a prompt entered, no request outstanding) without
\* a target that has an image is rejected
\* before any gateway call: no request is issued, the busy flag is not set,
\* and panels, selection and mode are unchanged.
C8_EditWithoutImageIsRejected ==
  [][(/\ lastOp'.op = "submit"
      /\ mode = "EDIT"
      /\ ~loadingState
      /\ ~OnlyWhitespace(prompt)
      /\ NoEditTarget) =>
       /\ inflight' = inflight
       /\ ~loadingState'
       /\ UNCHANGED <<panels, selectedPanelId, activeSlotId, mode, loadingState>>]_vars

C8_Witness ==
  /\ lastOp.op = "submit"
  /\ lastOp.kind = "edit"
  /\ lastOp.outcome = "rejected"
  /\ mode = "EDIT"
  /\ HasSlot(panels, selectedPanelId, activeSlotId)
  /\ SlotAt(panels, selectedPanelId, activeSlotId).url = EmptyText
  /\ inflight = << >>
  /\ ~loadingState

\* C9: submitting the form with an empty or whitespace-only prompt sends no
\* gateway request and changes no state: busy flag, panels, selection, mode
\* and the typed prompt stay as they were.
C9_BlankPromptIsIgnored ==
  [][(lastOp'.op = "submit" /\ OnlyWhitespace(prompt)) =>
       UNCHANGED <<inflight, loadingState, panels, selectedPanelId, activeSlotId,
                   mode, prompt, uploadedSketch>>]_vars

C9_Witness ==
  /\ lastOp.op = "submit"
  /\ lastOp.outcome = "ignored"
  /\ prompt = <<" ">>
  /\ ~loadingState
  /\ inflight = << >>

\* C10: at most one gateway request is outstanding at any moment; while the
\* busy flag is set no step submits a request, and the flag is set whenever
\* a request is outstanding.
C10_OneRequestAtATime ==
  [][/\ Len(inflight') <= 1
     /\ Len(inflight') > 0 => loadingState'
     /\ loadingState => Len(inflight') <= Len(inflight)]_vars

\* A submission was attempted, and ignored, while a request is outstanding
\* and the form holds a prompt that could otherwise be submitted.
C10_Witness ==
  /\ Len(inflight) = 1
  /\ loadingState
  /\ lastOp.op = "submit"
  /\ lastOp.outcome = "ignored"
  /\ FormRendered
  /\ ~OnlyWhitespace(prompt)

\* C11: every accepted request leaves the busy state once the gateway has
\* answered, with a success or with a failure: whenever the busy flag is set
\* it is cleared later, and it is never left set with no answer to come.
C11_BusyIsEventuallyCleared == loadingState ~> ~loadingState

\* A request has failed and the form accepts submissions again.
C11_Witness ==
  /\ lastOp.op = "settled"
  /\ ~lastOp.ok
  /\ ~loadingState
  /\ inflight = << >>
  /\ ~SubmitDisabled \/ PromptBlank(prompt)

\* C12: an accepted submission issues exactly one gateway request; the
\* answer to a request, a failure included, ends it without issuing another;
\* and no other step issues a request, so that after a failure nothing is
\* outstanding until the user submits again.
C12_OneCallPerSubmission ==
  [][/\ (lastOp'.op \in {"submit", "storyAssist"} /\ lastOp'.outcome = "sent") =>
          (Len(inflight') = Len(inflight) + 1 /\ SubSeq(inflight', 1, Len(inflight)) = inflight)
     /\ lastOp'.op = "settled" =>
          (Len(inflight') = Len(inflight) - 1 /\ (~lastOp'.ok => inflight' = << >>))
     /\ ~(lastOp'.op \in {"submit", "storyAssist"} /\ lastOp'.outcome = "sent")
          => Len(inflight') <= Len(inflight)]_vars

\* A generate request has failed at the gateway and nothing is outstanding.
C12_Witness ==
  /\ lastOp.op = "settled"
  /\ lastOp.kind = "generate"
  /\ ~lastOp.ok
  /\ inflight = << >>
  /\ steps >= 2

\* The position of the panel with the given id.
PanelIndex(ps, id) == CHOOSE k \in DOMAIN ps : ps[k].id = id

C14_EmptySlotSelectYieldsCreate ==
  [][(/\ lastOp'.op = "slotSelect"
      /\ SlotAt(panels, selectedPanelId', activeSlotId').url = EmptyText) =>
       mode' = "CREATE"]_vars

\* C15: selecting a slot whose image reference is not empty switches the UI
\* mode from CREATE to EDIT and leaves it EDIT when it was EDIT, and changes
\* no panel data.
C15_FilledSlotSelectYieldsEdit ==
  [][(/\ lastOp'.op = "slotSelect"
      /\ SlotAt(panels, selectedPanelId', activeSlotId').url # EmptyText
      /\ mode \in {"CREATE", "EDIT"}) =>
       (mode' = "EDIT" /\ panels' = panels)]_vars

\* A filled slot of the panel already selected has been clicked in CREATE
\* mode.
C15_Witness ==
  /\ lastOp.op = "slotSelect"
  /\ lastOp.mode = "CREATE"
  /\ mode = "EDIT"
  /\ HasSlot(panels, selectedPanelId, activeSlotId)
  /\ SlotAt(panels, selectedPanelId, activeSlotId).url # EmptyText
  /\ Len(FindPanel(panels, selectedPanelId).images) > 1

\* The image references a gateway image operation can return.
ReturnedReferences ==
  {<<"data:image/jpeg;", "base64,", resp.bytes>> : resp \in {r \in ImageResponses : r.kind = "bytes"}}
  \cup {<<"data:image/png;", "base64,", resp.bytes>> : resp \in {r \in ImageResponses : r.kind = "bytes"}}

\* C16: a successful generate submitted with no selected panel appends
\* exactly one panel at the end of the list and leaves the existing panels
\* and their order as they were; the new panel has layout SINGLE, one slot
\* holding the returned image reference and the user's prompt, an empty
\* caption, overlay NONE and column span 1.
C16_GenerateWithoutSelectionAppendsPanel ==
  [][(/\ lastOp'.op = "settled"
      /\ lastOp'.kind = "generate"
      /\ lastOp'.ok
      /\ lastOp'.panelId = Null) =>
       /\ Len(panels') = Len(panels) + 1
       /\ SubSeq(panels', 1, Len(panels)) = panels
       /\ LET new == panels'[Len(panels')]
          IN  /\ new.id \notin PanelIds(panels)
              /\ new.splitLayout = "SINGLE"
              /\ Len(new.images) = 1
              /\ new.images[1].url \in ReturnedReferences
              /\ new.images[1].url # EmptyText
              /\ new.images[1].prompt = inflight[1].prompt
              /\ new.images[1].id \notin SlotIds(panels)
              /\ new.caption = EmptyText
              /\ new.overlayType = "NONE"
              /\ new.colSpan = 1]_vars

\* A second panel has been appended by a generate submitted with nothing
\* selected, after the first panel was selected while the request was
\* outstanding.
C16_Witness ==
  /\ lastOp.op = "settled"
  /\ lastOp.kind = "generate"
  /\ lastOp.ok
  /\ lastOp.panelId = Null
  /\ Len(panels) = 2
  /\ selectedPanelId = panels[1].id
  /\ panels[2].images[1].prompt = <<"a">>

\* C17: each of the four gateway operations fails whenever the provider's
\* answer is empty or lacks the payload, and none of them returns an empty
\* image reference or an empty text as a successful result.
C17_GatewayFailsOnEmptyPayload ==
  [][\A i \in DOMAIN inflight :
       /\ \A resp \in ImageResponses :
            (GenerateSettles(i, resp) \/ EditSettles(i, resp)) =>
              /\ GatewayFailed(resp) => ~lastOp'.ok
              /\ generateComicImage(resp).ok => generateComicImage(resp).value # EmptyText
              /\ generateImageFromSketch(resp).ok => generateImageFromSketch(resp).value # EmptyText
              /\ editComicImage(resp).ok => editComicImage(resp).value # EmptyText
       /\ \A resp \in TextResponses :
            NarrativeSettles(i, resp) =>
              /\ GatewayFailed(resp) => ~lastOp'.ok
              /\ generateNarrativeElement(resp).ok =>
                   generateNarrativeElement(resp).value # EmptyText]_vars

\* new is old with at most the given field of the panel with the given id
\* replaced.
SameExceptField(old, new, id, field) ==
  /\ Len(new) = Len(old)
  /\ \A k \in DOMAIN old :
       IF old[k].id # id THEN new[k] = old[k]
       ELSE [new[k] EXCEPT ![field] = old[k][field]] = old[k]

AbsentIds(ps) == (0..(MaxIds + 1)) \ PanelIds(ps)

\* C18: set-caption, set-overlay and set-span each replace one field of the
\* panel with the given id by the given value and leave that panel's slots,
\* layout and other fields, every other panel, the panel order and the
\* selection pointers as they were; with an id of no existing panel they
\* change nothing.
C18_FieldUpdatesTouchOneField ==
  [][/\ lastOp'.op = "setCaption" =>
          /\ SameExceptField(panels, panels', lastOp'.panelId, "caption")
          /\ FindPanel(panels', lastOp'.panelId).caption = lastOp'.caption
          /\ UNCHANGED <<selectedPanelId, activeSlotId>>
     /\ lastOp'.op = "setOverlay" =>
          /\ SameExceptField(panels, panels', lastOp'.panelId, "overlayType")
          /\ FindPanel(panels', lastOp'.panelId).overlayType = lastOp'.overlayType
          /\ UNCHANGED <<selectedPanelId, activeSlotId>>
     /\ lastOp'.op = "setSpan" =>
          /\ SameExceptField(panels, panels', lastOp'.panelId, "colSpan")
          /\ FindPanel(panels', lastOp'.panelId).colSpan = lastOp'.colSpan
          /\ UNCHANGED <<selectedPanelId, activeSlotId>>
     /\ (lastOp'.op = "settled" /\ lastOp'.kind = "narrative" /\ lastOp'.type = "DIALOGUE") =>
          /\ SameExceptField(panels, panels', lastOp'.panelId, "caption")
          /\ ~HasPanel(panels, lastOp'.panelId) => panels' = panels
          /\ UNCHANGED <<selectedPanelId, activeSlotId>>
     /\ panels' # panels =>
          \A id \in AbsentIds(panels') :
            /\ \A caption \in CaptionInputs : UpdateCaption(panels', id, caption) = panels'
            /\ \A type \in OverlayInputs : ToggleOverlay(panels', id, type) = panels'
            /\ \A span \in SpanInputs : UpdatePanelSpan(panels', id, span) = panels']_vars

\* The caption of the second of two panels has been set; the first panel
\* keeps its empty caption.
C18_Witness ==
  /\ lastOp.op = "setCaption"
  /\ Len(panels) = 2
  /\ lastOp.panelId = panels[2].id
  /\ panels[2].caption = <<"c">>
  /\ panels[1].caption = EmptyText

\* sub occurs in s at position i.
OccursAt(s, sub, i) == i + Len(sub) - 1 <= Len(s) /\ SubSeq(s, i, i + Len(sub) - 1) = sub

Contains(s, sub) == \E i \in 1..Len(s) : OccursAt(s, sub, i)

\* The "Name: description" entry of a character.
RosterEntry(c) == Trim(c.name) \o <<": ">> \o Trim(c.description)

\* Every character's entry occurs in s, in roster order.
EntriesInOrder(s, cs) ==
  \E pos \in [DOMAIN cs -> 1..Len(s)] :
    /\ \A k \in DOMAIN cs : OccursAt(s, RosterEntry(cs[k]), pos[k])
    /\ \A k, l \in DOMAIN cs : k < l => pos[k] < pos[l]

\* The words that open the roster clause of a composed prompt.
RosterClauseMarkers ==
  {"Defined Characters (MUST MATCH EXACTLY): ", ". (Maintain character consistency: "}

HasRosterClause(s) == \E i \in DOMAIN s : s[i] \in RosterClauseMarkers

\* C19: the prompt composed for a generate or an edit request has no
\* character-roster clause when the roster is empty, and otherwise has the
\* clause, with the "Name: description" entry of every character in roster
\* order; with style NOIR and the single character (Raven, black hair,
\* trenchcoat) the generate prompt contains the NOIR style string and
\* "Raven: black hair, trenchcoat.".
C19_RosterClauseInComposedPrompts ==
  [][(lastOp'.op = "submit" /\ lastOp'.outcome = "sent") =>
       LET fullPrompt == inflight'[Len(inflight')].fullPrompt
       IN  /\ Contains(fullPrompt, prompt)
           /\ characters = << >> => ~HasRosterClause(fullPrompt)
           /\ characters # << >> =>
                (HasRosterClause(fullPrompt) /\ EntriesInOrder(fullPrompt, characters))
           /\ (/\ lastOp'.kind = "generate"
               /\ style = "NOIR"
               /\ Len(characters) = 1
               /\ Trim(characters[1].name) = <<"Raven">>
               /\ characters[1].description = <<"black hair, trenchcoat">>) =>
                /\ Contains(fullPrompt, <<"film noir style, high contrast black and white comic, dramatic shadows, mysterious atmosphere, frank miller style">>)
                /\ Contains(fullPrompt, <<"Raven", ": ", "black hair, trenchcoat", ".">>)]_vars

\* A generate request has been submitted with style NOIR and the roster
\* (Raven, black hair, trenchcoat), and its prompt carries the roster clause.
C19_Witness ==
  /\ lastOp.op = "submit"
  /\ lastOp.kind = "generate"
  /\ lastOp.outcome = "sent"
  /\ style = "NOIR"
  /\ Len(characters) = 1
  /\ characters[1].name = <<"Raven">>
  /\ characters[1].description = <<"black hair, trenchcoat">>
  /\ Len(inflight) = 1
  /\ HasRosterClause(inflight[1].fullPrompt)

\* C20: in every reachable state every slot of every panel has an empty
\* prompt exactly when its image reference is empty; and a generate result
\* written into a slot leaves there a non-empty image reference and the
\* non-empty prompt of its request.
C20_PromptEmptyIffReferenceEmpty ==
  [][/\ \A k \in DOMAIN panels' : \A j \in DOMAIN panels'[k].images :
          (panels'[k].images[j].prompt = EmptyText) <=> (panels'[k].images[j].url = EmptyText)
     /\ (/\ lastOp'.op = "settled"
         /\ lastOp'.kind = "generate"
         /\ lastOp'.ok
         /\ HasPanel(panels, lastOp'.panelId)
         /\ HasSlot(inflight[1].panels, lastOp'.panelId, lastOp'.slotId)) =>
          /\ HasSlot(panels', lastOp'.panelId, lastOp'.slotId)
          /\ SlotAt(panels', lastOp'.panelId, lastOp'.slotId).url # EmptyText
          /\ SlotAt(panels', lastOp'.panelId, lastOp'.slotId).prompt = inflight[1].prompt
          /\ ~OnlyWhitespace(inflight[1].prompt)]_vars

\* A generate result has filled the second slot of a panel whose third slot
\* is an unfilled placeholder.
C20_Witness ==
  /\ lastOp.op = "settled"
  /\ lastOp.kind = "generate"
  /\ lastOp.ok
  /\ HasPanel(panels, lastOp.panelId)
  /\ LET images == FindPanel(panels, lastOp.panelId).images
     IN  /\ Len(images) = 3
         /\ images[2].id = lastOp.slotId
         /\ images[2].url # EmptyText
         /\ images[2].prompt = <<"a">>
         /\ images[3].url = EmptyText
         /\ images[3].prompt = EmptyText

\* C21: in every reachable state the selected-panel id is null exactly
\* when the active-slot id is null, and a selected-panel id that is not null
\* is the id of a panel in the panel list.
C21_SelectionPointersConsistent ==
  /\ (selectedPanelId = Null) <=> (activeSlotId = Null)
  /\ selectedPanelId # Null => HasPanel(panels, selectedPanelId)

\* The selected one of two panels has been deleted: both pointers are null
\* and the other panel remains.
C21_Witness ==
  /\ lastOp.op = "delete"
  /\ selectedPanelId = Null
  /\ activeSlotId = Null
  /\ Len(panels) = 1
  /\ steps >= 6

\* C22: in every reachable state an active-slot id that is not null is the
\* id of a slot in the slot list of the selected panel, also after a layout
\* change has shrunk the selected panel.
C22_ActiveSlotIsInSelectedPanel ==
  activeSlotId # Null => HasSlot(panels, selectedPanelId, activeSlotId)

\* C23: a generate request whose gateway call succeeds and whose target
\* panel, if it has one, is still in the list when the result arrives is
\* never dropped: the returned image is then in the slot the request was
\* submitted for, with the request's prompt, or in the single slot of a
\* panel appended to the list.
C23_SuccessfulGenerateIsNotDropped ==
  [][(/\ lastOp'.op = "settled"
      /\ lastOp'.kind = "generate"
      /\ lastOp'.ok
      /\ (lastOp'.panelId = Null \/ HasPanel(panels, lastOp'.panelId))) =>
       IF lastOp'.panelId = Null
       THEN /\ Len(panels') = Len(panels) + 1
            /\ panels'[Len(panels')].images[1].url # EmptyText
       ELSE /\ HasSlot(panels', lastOp'.panelId, lastOp'.slotId)
            /\ SlotAt(panels', lastOp'.panelId, lastOp'.slotId).url # EmptyText
            /\ SlotAt(panels', lastOp'.panelId, lastOp'.slotId).prompt = inflight[1].prompt]_vars

\* new is old with at most the image reference of slot (pid, sid) replaced.
SameExceptSlotUrl(old, new, pid, sid) ==
  /\ Len(new) = Len(old)
  /\ \A k \in DOMAIN old :
       IF old[k].id # pid THEN new[k] = old[k]
       ELSE /\ [new[k] EXCEPT !.images = old[k].images] = old[k]
            /\ Len(new[k].images) = Len(old[k].images)
            /\ \A j \in DOMAIN old[k].images :
                 IF old[k].images[j].id # sid THEN new[k].images[j] = old[k].images[j]
                 ELSE [new[k].images[j] EXCEPT !.url = old[k].images[j].url] = old[k].images[j]

\* C24: a successful edit replaces only the image reference of the slot that
\* was active when the edit was submitted; that slot's identity and prompt,
\* the number and order of the slots of its panel, and every other panel are
\* as they were just before the result was applied.
C24_EditResultTouchesOneReference ==
  [][(/\ lastOp'.op = "settled"
      /\ lastOp'.kind = "edit"
      /\ lastOp'.ok) =>
       SameExceptSlotUrl(panels, panels', lastOp'.panelId, lastOp'.slotId)]_vars

\* C25: the selected-panel id goes back to null only in the step that
\* deletes the selected panel, and a generate submitted while a panel was
\* selected never appends a panel.
C25_SelectionClearedOnlyByDelete ==
  [][/\ (selectedPanelId # Null /\ selectedPanelId' = Null) =>
          (lastOp'.op = "delete" /\ lastOp'.panelId = selectedPanelId)
     /\ (lastOp'.op = "settled" /\ lastOp'.kind = "generate" /\ lastOp'.panelId # Null) =>
          (Len(panels') = Len(panels) /\ PanelIds(panels') = PanelIds(panels))]_vars

\* A generate submitted for the only slot of the selected panel has been
\* answered after that panel was deleted: no panel has been appended.
C25_Witness ==
  /\ lastOp.op = "settled"
  /\ lastOp.kind = "generate"
  /\ lastOp.ok
  /\ lastOp.panelId # Null
  /\ panels = << >>
  /\ selectedPanelId = Null

\* C26: when the result of a generate or edit arrives for a panel that was
\* deleted meanwhile, the panel list is left exactly as it is; and an id that
\* enters the list is always a fresh one, so a deleted panel never reappears.
C26_DeletedPanelNeverReappears ==
  [][/\ (lastOp'.op = "settled" /\ lastOp'.kind \in {"generate", "edit"}
          /\ lastOp'.panelId # Null /\ ~HasPanel(panels, lastOp'.panelId)) =>
          panels' = panels
     /\ \A id \in PanelIds(panels') \ PanelIds(panels) : id >= nextId]_vars

\* The gateway has returned the edited image for a panel that was deleted
\* while the edit was in flight, and another panel is still in the list.
C26_Witness ==
  /\ lastOp.op = "settled"
  /\ lastOp.kind = "edit"
  /\ lastOp.ok
  /\ ~HasPanel(panels, lastOp.panelId)
  /\ Len(panels) = 1

\* C27: in every step that changes the selected panel to a different
\* existing panel the mode ends as STORY when it was STORY and as EDIT
\* otherwise; a select-panel on the panel already selected leaves the mode.
C27_SelectionChangeSetsEditUnlessStory ==
  [][/\ (SelectedPanelKey(panels', selectedPanelId') # Null
          /\ SelectedPanelKey(panels', selectedPanelId') # SelectedPanelKey(panels, selectedPanelId)) =>
          mode' = (IF mode = "STORY" THEN "STORY" ELSE "EDIT")
     /\ (lastOp'.op = "panelSelect" /\ selectedPanelId' = selectedPanelId) =>
          mode' = mode]_vars

\* C28: a select-panel on a panel other than the selected one selects it
\* and makes its first slot active; on the selected panel it changes neither
\* pointer; a click on a slot ends with that slot active and its panel
\* selected.
C28_SelectHandlersSetPointers ==
  [][/\ (lastOp'.op = "panelSelect" /\ lastOp'.panelId # selectedPanelId) =>
          /\ selectedPanelId' = lastOp'.panelId
          /\ activeSlotId' = FindPanel(panels, lastOp'.panelId).images[1].id
     /\ (lastOp'.op = "panelSelect" /\ lastOp'.panelId = selectedPanelId) =>
          /\ selectedPanelId' = selectedPanelId
          /\ activeSlotId' = activeSlotId
     /\ lastOp'.op = "slotSelect" =>
          /\ selectedPanelId' = lastOp'.panelId
          /\ activeSlotId' = lastOp'.slotId
          /\ HasSlot(panels', lastOp'.panelId, lastOp'.slotId)]_vars

\* A select-panel has moved the selection from one panel to another, whose
\* first slot is now the active one.
C28_Witness ==
  /\ lastOp.op = "panelSelect"
  /\ lastOp.previous # Null
  /\ lastOp.previous # lastOp.panelId
  /\ selectedPanelId = lastOp.panelId
  /\ activeSlotId = FindPanel(panels, selectedPanelId).images[1].id

\* C29: the result of a narrative request of kind PLOT or NEXT_PANEL leaves
\* the panel list as it is and sets the mode to CREATE; the result of a
\* DIALOGUE request changes at most the caption of the panel that was
\* selected at submission, and nothing when that panel is no longer there.
C29_NarrativeResultTouchesOnlyCaption ==
  [][(lastOp'.op = "settled" /\ lastOp'.kind = "narrative") =>
       IF lastOp'.type \in {"PLOT", "NEXT_PANEL"}
       THEN panels' = panels /\ mode' = "CREATE"
       ELSE IF lastOp'.panelId # Null /\ HasPanel(panels, lastOp'.panelId)
       THEN /\ SameExceptField(panels, panels', lastOp'.panelId, "caption")
            /\ \E resp \in TextResponses :
                  LET res == generateNarrativeElement(resp)
                  IN  FindPanel(panels', lastOp'.panelId).caption =
                        (IF res.ok THEN res.value ELSE EmptyText)
       ELSE panels' = panels]_vars

\* A DIALOGUE result has been written as the caption of the panel selected
\* at submission.
C29_Witness ==
  /\ lastOp.op = "settled"
  /\ lastOp.kind = "narrative"
  /\ lastOp.type = "DIALOGUE"
  /\ lastOp.ok
  /\ HasPanel(panels, lastOp.panelId)
  /\ FindPanel(panels, lastOp.panelId).caption # EmptyText

\* C30: a set-layout step leaves a panel list that a second application of
\* the same layout does not change, and when the panel's layout before the
\* step has the same slot count as the new one the step changes only the
\* layout tag of that panel: every slot keeps its id, reference and prompt.
C30_SetLayoutIdempotentAndContentPreserving ==
  [][lastOp'.op = "setLayout" =>
       /\ ChangeSplitLayout(panels', lastOp'.panelId, lastOp'.layout, nextId') = panels'
       /\ TargetCount(FindPanel(panels, lastOp'.panelId).splitLayout) = TargetCount(lastOp'.layout) =>
            /\ SameExceptField(panels, panels', lastOp'.panelId, "splitLayout")
            /\ FindPanel(panels', lastOp'.panelId).splitLayout = lastOp'.layout]_vars

====
